---------------------------- MODULE Spec2Model ----------------------------
(***************************************************************************)
(* Model of the report generator of src/gradescope_report2.ts: the         *)
(* partition of the evaluations, the graders of functionality, wheat and   *)
(* chaff evaluations, the registry of invalid tests and blocks built from  *)
(* the wheats, the score summaries and the overall report; and of the      *)
(* chaff graders of the two other revisions of the program.                *)
(*                                                                         *)
(* Representation of the TypeScript values:                                *)
(*   - a path name or a location is a JavaScript string whose characters   *)
(*     the code inspects (split, includes): a sequence of one-character    *)
(*     strings;                                                            *)
(*   - a block name, a file name, an error reason and the fixed pieces of  *)
(*     a message are TLA+ strings; a template string is the sequence of    *)
(*     its pieces;                                                         *)
(*   - an optional field (Result.Ok, Result.Err) is a field the record     *)
(*     has or does not have;                                               *)
(*   - JavaScript's undefined and null are the values Undefined and Null,  *)
(*     which no string of the model equals.                                *)
(***************************************************************************)
EXTENDS Integers, Sequences, FiniteSets, TLC

VARIABLES
    pc,                     \* position in main
    results,                \* the evaluations read from the input file
    point_values,           \* the point tables read from the score file
    test_results,           \* functionality evaluations
    wheat_results,          \* wheat evaluations
    chaff_results,          \* chaff evaluations
    functionality_reports,  \* one list of reports per functionality evaluation
    wheat_reports,          \* one report per wheat
    all_invalid_tests,      \* Set<string> of generate_chaff_report
    all_invalid_blocks,     \* Set<string> of generate_chaff_report
    chaff_reports,          \* one report per chaff
    ta_reports,             \* the score summaries
    gradescope_report       \* the overall report

vars == <<pc, results, point_values, test_results, wheat_results, chaff_results,
          functionality_reports, wheat_reports, all_invalid_tests,
          all_invalid_blocks, chaff_reports, ta_reports, gradescope_report>>

-----------------------------------------------------------------------------
(* Bounds of the model *)

\* wheat evaluations in one run
MaxWheats == 2
\* blocks of a functionality evaluation
MaxBlocks == 2
\* tests of one block of a functionality evaluation
MaxTests == 2
\* evaluations in the input file of a whole run of main
MaxResults == 3
\* reports in one list given to generate_score_report
MaxItems == 2
\* the largest point value of a point table
MaxPoints == 2

-----------------------------------------------------------------------------
(* JavaScript values *)

Undefined == <<"undefined">>

Null == <<"null">>

\* arr[i] of a JavaScript array (0-based); an index that is no element of the
\* array, a negative one included, reads undefined
JsIndex(arr, i) == IF i \in 0..(Len(arr) - 1) THEN arr[i + 1] ELSE Undefined

\* the position of the k-th occurrence of sep in s
SepAt(s, sep, k) ==
    CHOOSE i \in 1..Len(s) :
        /\ s[i] = sep
        /\ Cardinality({j \in 1..(i - 1) : s[j] = sep}) = k - 1

\* s.split(sep) for a one-character separator: the pieces of s between the
\* occurrences of sep, one more piece than occurrences
JsSplit(s, sep) ==
    LET n == Cardinality({i \in 1..Len(s) : s[i] = sep})
    IN  [k \in 1..(n + 1) |->
            SubSeq(s,
                   IF k = 1 THEN 1 ELSE SepAt(s, sep, k - 1) + 1,
                   IF k = n + 1 THEN Len(s) ELSE SepAt(s, sep, k) - 1)]

\* truthiness of the optional string field result.Err
HasErr(result) == "Err" \in DOMAIN result /\ result.Err # ""

-----------------------------------------------------------------------------
(* Helpers *)

\* the JavaScript string of a sequence of characters, as one TLA+ string
RECURSIVE Join(_)
Join(chars) == IF chars = <<>> THEN "" ELSE chars[1] \o Join(Tail(chars))

\* path.parse(path_name).base: the part after the last "/". The name goes to
\* the name of a report, which is a key of the point tables as a block name is
get_file_name(path_name) ==
    LET parts == JsSplit(path_name, "/") IN Join(parts[Len(parts)])

get_loc_name(loc) == JsIndex(JsSplit(loc, "/"), -1)

\* s.includes(sub)
Includes(s, sub) ==
    \E i \in 0..(Len(s) - Len(sub)) : SubSeq(s, i + 1, i + Len(sub)) = sub

-----------------------------------------------------------------------------
(* Handling input *)

\* partition_results testing for "chaff" before "wheat"
partition_results_ChaffFirst(evaluations) ==
    LET RECURSIVE Loop(_, _)
        Loop(i, lists) ==
            IF i > Len(evaluations)
            THEN lists
            ELSE LET result == evaluations[i]
                 IN  IF Includes(result.code, <<"c", "h", "a", "f", "f">>)
                     THEN Loop(i + 1, <<lists[1], lists[2], Append(lists[3], result)>>)
                     ELSE IF Includes(result.code, <<"w", "h", "e", "a", "t">>)
                     THEN Loop(i + 1, <<lists[1], Append(lists[2], result), lists[3]>>)
                     ELSE Loop(i + 1, <<Append(lists[1], result), lists[2], lists[3]>>)
    IN  Loop(1, <<<<>>, <<>>, <<>>>>)

\* partition_results: <<test_results, wheat_results, chaff_results>>
partition_results(evaluations) ==
    LET RECURSIVE Loop(_, _)
        Loop(i, lists) ==
            IF i > Len(evaluations)
            THEN lists
            ELSE LET result == evaluations[i]
                 IN  IF Includes(result.code, <<"w", "h", "e", "a", "t">>)
                     THEN Loop(i + 1, <<lists[1], Append(lists[2], result), lists[3]>>)
                     ELSE IF Includes(result.code, <<"c", "h", "a", "f", "f">>)
                     THEN Loop(i + 1, <<lists[1], lists[2], Append(lists[3], result)>>)
                     ELSE Loop(i + 1, <<Append(lists[1], result), lists[2], lists[3]>>)
    IN  Loop(1, <<<<>>, <<>>, <<>>>>)

-----------------------------------------------------------------------------
(* Student reports *)

Report(name, score, output, visibility) ==
    [name |-> name, score |-> score, max_score |-> 1, output |-> output,
     visibility |-> visibility]

\* block.tests.filter(test => test.passed).length
PassedTests(block) == Len(SelectSeq(block.tests, LAMBDA test : test.passed))

\* functionality_block_report without its test of block.error
functionality_block_report_ErrorIgnored(block) ==
    LET total_tests == Len(block.tests)
        passed_tests == PassedTests(block)
    IN  Report(block.name,
               IF passed_tests = total_tests THEN 1 ELSE 0,
               IF passed_tests = total_tests
               THEN <<"Passed all ", ToString(total_tests), " tests in this block!">>
               ELSE <<"Missing ", ToString(total_tests - passed_tests),
                      " tests in this block">>,
               "after_published")

\* the report of one block of a functionality evaluation
functionality_block_report(block) ==
    IF block.error
    THEN Report(block.name, 0, <<"Block errored.">>, "after_published")
    ELSE LET total_tests == Len(block.tests)
             passed_tests == PassedTests(block)
         IN  Report(block.name,
                    IF passed_tests = total_tests THEN 1 ELSE 0,
                    IF passed_tests = total_tests
                    THEN <<"Passed all ", ToString(total_tests), " tests in this block!">>
                    ELSE <<"Missing ", ToString(total_tests - passed_tests),
                           " tests in this block">>,
                    "after_published")

\* generate_functionality_report with the visibility of the block reports on
\* the error report
generate_functionality_report_Withheld(test_result) ==
    LET result == test_result.result IN
    IF HasErr(result)
    THEN << Report(get_file_name(test_result.code), 0, <<"Error: ", result.Err>>,
                   "after_published") >>
    ELSE [i \in 1..Len(result.Ok) |-> functionality_block_report(result.Ok[i])]

generate_functionality_report(test_result) ==
    LET result == test_result.result IN
    IF HasErr(result)
    THEN << Report(get_file_name(test_result.code), 0, <<"Error: ", result.Err>>,
                   "visible") >>
    ELSE [i \in 1..Len(result.Ok) |-> functionality_block_report(result.Ok[i])]

\* the pairs [location, block name] pushed for the failed tests of one block
RECURSIVE FailedTestsFrom(_, _)
FailedTestsFrom(block, j) ==
    IF j > Len(block.tests) THEN <<>>
    ELSE (IF ~block.tests[j].passed
          THEN << <<get_loc_name(block.tests[j].loc), block.name>> >>
          ELSE <<>>) \o FailedTestsFrom(block, j + 1)

\* invalid_tests after the loop over the blocks from the i-th on
RECURSIVE InvalidTestsFrom(_, _)
InvalidTestsFrom(blocks, i) ==
    IF i > Len(blocks) THEN <<>>
    ELSE FailedTestsFrom(blocks[i], 1) \o InvalidTestsFrom(blocks, i + 1)

\* invalid_blocks after the loop over the blocks from the i-th on
RECURSIVE InvalidBlocksFrom(_, _)
InvalidBlocksFrom(blocks, i) ==
    IF i > Len(blocks) THEN <<>>
    ELSE (IF blocks[i].error
          THEN << <<get_loc_name(blocks[i].loc), blocks[i].name>> >>
          ELSE <<>>) \o InvalidBlocksFrom(blocks, i + 1)

\* get_invalid_tests_and_blocks without its return of null
get_invalid_tests_and_blocks_NeverNull(wheat) ==
    IF HasErr(wheat.result) THEN << <<>>, <<>> >>
    ELSE <<InvalidTestsFrom(wheat.result.Ok, 1), InvalidBlocksFrom(wheat.result.Ok, 1)>>

\* get_invalid_tests_and_blocks returning null for a wheat that errored
get_invalid_tests_and_blocks_ErrNull(wheat) ==
    IF HasErr(wheat.result) THEN Null
    ELSE LET invalid_tests == InvalidTestsFrom(wheat.result.Ok, 1)
             invalid_blocks == InvalidBlocksFrom(wheat.result.Ok, 1)
         IN  IF Len(invalid_tests) = 0 /\ Len(invalid_blocks) = 0
             THEN Null
             ELSE <<invalid_tests, invalid_blocks>>

get_invalid_tests_and_blocks(wheat) ==
    IF HasErr(wheat.result) THEN << <<>>, <<>> >>
    ELSE LET invalid_tests == InvalidTestsFrom(wheat.result.Ok, 1)
             invalid_blocks == InvalidBlocksFrom(wheat.result.Ok, 1)
         IN  IF Len(invalid_tests) = 0 /\ Len(invalid_blocks) = 0
             THEN Null
             ELSE <<invalid_tests, invalid_blocks>>

\* the output of generate_wheat_report; "throw" stands for the throw statement
wheat_output(wheat_result, invalid) ==
    IF invalid = Null THEN <<"Passed wheat!">>
    ELSE IF HasErr(wheat_result.result)
    THEN <<"Wheat errored; ", wheat_result.result.Err>>
    ELSE LET invalid_tests == invalid[1]
             invalid_blocks == invalid[2]
         IN  IF Len(invalid_tests) > 0
             THEN <<"Wheat failed test in block ", invalid_tests[1][2]>>
             ELSE IF Len(invalid_blocks) > 0
             THEN <<"Wheat caused error in block ", invalid_blocks[1][2]>>
             ELSE <<"throw", "Wheat failed but no reason given.">>

generate_wheat_report(wheat_result) ==
    LET invalid == get_invalid_tests_and_blocks(wheat_result) IN
    Report(get_file_name(wheat_result.code),
           IF invalid = Null THEN 1 ELSE 0,
           wheat_output(wheat_result, invalid),
           "after_published")

\* the locations (first components) of a list of pairs, as a set
Locations(pairs) == {pairs[n][1] : n \in 1..Len(pairs)}

\* the loop of generate_chaff_report assigning each wheat's locations to the
\* sets instead of adding them
RECURSIVE AllInvalidFrom_Assigned(_, _, _)
AllInvalidFrom_Assigned(wheats, i, acc) ==
    IF i > Len(wheats) THEN acc
    ELSE LET invalid == get_invalid_tests_and_blocks(wheats[i])
         IN  AllInvalidFrom_Assigned(wheats, i + 1,
                 IF invalid # Null
                 THEN <<Locations(invalid[1]), Locations(invalid[2])>>
                 ELSE acc)

\* <<all_invalid_tests, all_invalid_blocks>> after the loop of
\* generate_chaff_report over the wheats from the i-th on, started with the
\* pair of sets acc
RECURSIVE AllInvalidFrom(_, _, _)
AllInvalidFrom(wheats, i, acc) ==
    IF i > Len(wheats) THEN acc
    ELSE LET invalid == get_invalid_tests_and_blocks(wheats[i])
         IN  AllInvalidFrom(wheats, i + 1,
                 IF invalid # Null
                 THEN <<acc[1] \cup Locations(invalid[1]),
                        acc[2] \cup Locations(invalid[2])>>
                 ELSE acc)

\* the two sets of the closure generate_chaff_report(wheats) returns
all_invalid(wheats) == AllInvalidFrom(wheats, 1, <<{}, {}>>)

all_invalid_tests_of(wheats) == all_invalid(wheats)[1]

all_invalid_blocks_of(wheats) == all_invalid(wheats)[2]

\* the test loop without the lookup in invalid_tests
TestFails_Unmasked(block, invalid_tests) ==
    \E j \in 1..Len(block.tests) : ~block.tests[j].passed

\* whether the loop over block.tests returns: some test failed at a location
\* that is not in invalid_tests
TestFails(block, invalid_tests) ==
    \E j \in 1..Len(block.tests) :
        ~block.tests[j].passed /\ get_loc_name(block.tests[j].loc) \notin invalid_tests

\* the first condition of the block loop with the lookup inverted
BlockErrors_OnlyInvalid(block, invalid_blocks) ==
    block.error /\ get_loc_name(block.loc) \in invalid_blocks

\* whether the first condition of the block loop holds
BlockErrors(block, invalid_blocks) ==
    block.error /\ get_loc_name(block.loc) \notin invalid_blocks

\* the loop of the inner function over the blocks from the i-th on
RECURSIVE ChaffScan(_, _, _, _)
ChaffScan(chaff_result, i, invalid_tests, invalid_blocks) ==
    LET blocks == chaff_result.result.Ok
        name == get_file_name(chaff_result.code)
    IN  IF i > Len(blocks)
        THEN Report(name, 0, <<"Chaff not caught.">>, "after_published")
        ELSE IF BlockErrors(blocks[i], invalid_blocks)
        THEN Report(name, 1, <<"Chaff caught; error in block ", blocks[i].name, "!">>,
                    "after_published")
        ELSE IF TestFails(blocks[i], invalid_tests)
        THEN Report(name, 1,
                    <<"Chaff caught; test failed in block ", blocks[i].name, "!">>,
                    "after_published")
        ELSE ChaffScan(chaff_result, i + 1, invalid_tests, invalid_blocks)

\* the inner function grading a chaff that errored as not caught
chaff_report_ErrNotCaught(chaff_result, invalid_tests, invalid_blocks) ==
    IF HasErr(chaff_result.result)
    THEN Report(get_file_name(chaff_result.code), 0, <<"Chaff not caught.">>,
                "after_published")
    ELSE ChaffScan(chaff_result, 1, invalid_tests, invalid_blocks)

\* the function generate_chaff_report returns, applied to chaff_result; the
\* two sets are the ones its closure holds
chaff_report(chaff_result, invalid_tests, invalid_blocks) ==
    IF HasErr(chaff_result.result)
    THEN Report(get_file_name(chaff_result.code), 1,
                <<"Chaff caught; error: ", chaff_result.result.Err, "!">>,
                "after_published")
    ELSE ChaffScan(chaff_result, 1, invalid_tests, invalid_blocks)

-----------------------------------------------------------------------------
(* The chaff graders of the other revisions *)

\* arr.includes(x) of a JavaScript array; undefined is found as any value is
ArrayIncludes(arr, x) == \E k \in 1..Len(arr) : arr[k] = x

\* src/gradescope_report.ts, get_invalid_tests_and_blocks(wheat_results): the
\* arrays <<invalid_tests, invalid_blocks>> after the wheats from the i-th on
RECURSIVE InvalidArraysFrom_r1(_, _, _)
InvalidArraysFrom_r1(wheats, i, arrays) ==
    IF i > Len(wheats)
    THEN arrays
    ELSE IF "Ok" \in DOMAIN wheats[i].result
    THEN LET blocks == wheats[i].result.Ok
             tests == InvalidTestsFrom(blocks, 1)
             errored == InvalidBlocksFrom(blocks, 1)
         IN  InvalidArraysFrom_r1(wheats, i + 1,
                 <<arrays[1] \o [n \in 1..Len(tests) |-> tests[n][1]],
                   arrays[2] \o [n \in 1..Len(errored) |-> errored[n][1]]>>)
    ELSE InvalidArraysFrom_r1(wheats, i + 1, arrays)

get_invalid_tests_and_blocks_r1(wheats) ==
    InvalidArraysFrom_r1(wheats, 1, << <<>>, <<>> >>)

\* src/gradescope_report.ts, find_where_fails: the pieces of the message, or
\* null; the template string prints the undefined of get_loc_name
RECURSIVE FindFrom_r1(_, _)
FindFrom_r1(blocks, i) ==
    IF i > Len(blocks) THEN Null
    ELSE IF blocks[i].error
    THEN <<"block errored: ", get_loc_name(blocks[i].loc)>>
    ELSE IF PassedTests(blocks[i]) # Len(blocks[i].tests)
    THEN <<"failed test in block: ", get_loc_name(blocks[i].loc)>>
    ELSE FindFrom_r1(blocks, i + 1)

find_where_fails(test_result) ==
    IF HasErr(test_result.result)
    THEN <<"file Error: ", test_result.result.Err>>
    ELSE FindFrom_r1(test_result.result.Ok, 1)

\* src/gradescope_report.ts, the function generate_chaff_report returns. The
\* copy JSON.parse(JSON.stringify(chaff_result)) has the blocks and tests of
\* the chaff; filter_in_place(func, lis) leaves in lis, which is part of the
\* copy, the elements func holds of, in their order
generate_chaff_report_r1(invalid_tests, invalid_blocks, chaff_result) ==
    LET caught_chaff ==
            IF HasErr(chaff_result.result)
            THEN TRUE
            ELSE LET kept == SelectSeq(
                                chaff_result.result.Ok,
                                LAMBDA block :
                                    ~ArrayIncludes(invalid_blocks, get_loc_name(block.loc)))
                     blocks == [b \in 1..Len(kept) |->
                                   [kept[b] EXCEPT !.tests =
                                       SelectSeq(
                                           @,
                                           LAMBDA test :
                                               ~ArrayIncludes(invalid_tests,
                                                              get_loc_name(test.loc)))]]
                     adjusted_chaff_result ==
                         [chaff_result EXCEPT !.result = [Ok |-> blocks]]
                 IN  find_where_fails(adjusted_chaff_result) # Null
    IN  Report(get_file_name(chaff_result.code),
               IF caught_chaff THEN 1 ELSE 0,
               IF caught_chaff THEN <<"Caught chaff!">> ELSE <<"Didn't catch chaff.">>,
               "after_published")

\* src/unnamed/part_000, the loop of the function generate_chaff_report
\* returns, over the blocks from the i-th on: no set is looked at
RECURSIVE ChaffScan_p0(_, _)
ChaffScan_p0(chaff_result, i) ==
    LET blocks == chaff_result.result.Ok
        name == get_file_name(chaff_result.code)
    IN  IF i > Len(blocks)
        THEN Report(name, 0, <<"Chaff not caught.">>, "after_published")
        ELSE IF blocks[i].error
        THEN Report(name, 1, <<"Chaff caught; error in block ", blocks[i].name, "!">>,
                    "after_published")
        ELSE IF \E j \in 1..Len(blocks[i].tests) : ~blocks[i].tests[j].passed
        THEN Report(name, 1,
                    <<"Chaff caught; test failed in block ", blocks[i].name, "!">>,
                    "after_published")
        ELSE ChaffScan_p0(chaff_result, i + 1)

\* src/unnamed/part_000, the function generate_chaff_report(wheat_results)
\* returns: it builds the two sets from the wheats and does not read them
generate_chaff_report_p0(wheats, chaff_result) ==
    IF HasErr(chaff_result.result)
    THEN Report(get_file_name(chaff_result.code), 1,
                <<"Chaff caught; error: ", chaff_result.result.Err, "!">>,
                "after_published")
    ELSE ChaffScan_p0(chaff_result, 1)

-----------------------------------------------------------------------------
(* TA reports *)

\* points_of giving no point to a name without an entry
points_of_MissingZero(table, report) ==
    IF report.name \in DOMAIN table THEN table[report.name] ELSE 0

\* point_values.has(report.name) ? point_values.get(report.name) : 1
points_of(table, report) ==
    IF report.name \in DOMAIN table THEN table[report.name] ELSE 1

\* the loop of generate_score_report from the i-th report on:
\* <<total_score, possible_score>>
RECURSIVE ScoreLoop(_, _, _, _, _)
ScoreLoop(reports, table, i, total_score, possible_score) ==
    IF i > Len(reports)
    THEN <<total_score, possible_score>>
    ELSE LET points == points_of(table, reports[i])
         IN  ScoreLoop(reports, table, i + 1,
                       total_score + (IF reports[i].score = reports[i].max_score
                                      THEN points ELSE 0),
                       possible_score + points)

\* generate_score_report counting every report that scored anything
generate_score_report_AnyScore(reports, table, name) ==
    LET RECURSIVE Loop(_, _, _)
        Loop(i, total_score, possible_score) ==
            IF i > Len(reports)
            THEN <<total_score, possible_score>>
            ELSE LET points == points_of(table, reports[i])
                 IN  Loop(i + 1,
                          total_score + (IF reports[i].score > 0 THEN points ELSE 0),
                          possible_score + points)
        sums == Loop(1, 0, 0)
    IN  [name |-> name, score |-> sums[1], max_score |-> sums[2],
         output |-> <<"">>, visibility |-> "hidden"]

generate_score_report(reports, table, name) ==
    LET sums == ScoreLoop(reports, table, 1, 0, 0)
    IN  [name |-> name, score |-> sums[1], max_score |-> sums[2],
         output |-> <<"">>, visibility |-> "hidden"]

\* [].concat(...lists)
RECURSIVE Flatten(_)
Flatten(lists) ==
    IF lists = <<>> THEN <<>> ELSE Head(lists) \o Flatten(Tail(lists))

generate_overall_report(all_reports) ==
    [visibility |-> "after_published", stdout_visibility |-> "after_published",
     tests |-> all_reports]

-----------------------------------------------------------------------------
(* The inputs of a run *)

\* the reasons of Err used in the runs
Reasons == {"Timeout", "Compilation"}

\* path names of the implementations
ImplCode == <<"i", "m", "p", "l">>

ChaffCode == <<"c", "h", "a", "f", "f", "1">>

WheatCode(n) == <<"w", "h", "e", "a", "t", ToString(n)>>

BlockName(b) == IF b = 1 THEN "Block1" ELSE IF b = 2 THEN "Block2" ELSE "Block3"

\* the location of block b, and of its test t, inside the test file
PureBlockLoc(b) == <<"t", ":", ToString(b)>>

PureTestLoc(b, t) == <<"t", ":", ToString(b), ":", ToString(t)>>

\* a full location names the evaluated implementation before the test file:
\* "file:///autograder/results/docdiff-wheat-2017.arr;docdiff-tests.arr/tests.arr:8:0-19:3"
FullLoc(code, pure) == <<"r", "/">> \o code \o <<"/">> \o pure

\* block b with the given outcome: error, and passed[t] for each test t
MkBlock(code, b, error, passed) ==
    [name |-> BlockName(b),
     loc |-> FullLoc(code, PureBlockLoc(b)),
     error |-> error,
     tests |-> [t \in 1..Len(passed) |->
                   [loc |-> FullLoc(code, PureTestLoc(b, t)), passed |-> passed[t]]]]

MkEvaluation(code, result) ==
    [code |-> code, tests |-> <<"t">>, result |-> result]

\* the outcomes of one block with a number of tests in lens: whether it
\* errored, and whether each of its tests passed
BlockOutcomes(lens) ==
    {<<error, passed>> :
        error \in BOOLEAN, passed \in UNION {[1..n -> BOOLEAN] : n \in lens}}

\* the outcomes of one run: Err with a reason, or Ok with the outcomes of a
\* number of blocks in nbs
RunOutcomes(nbs, lens) ==
    {[Err |-> reason] : reason \in Reasons}
    \cup UNION {{[Ok |-> blocks] : blocks \in [1..nb -> BlockOutcomes(lens)]} : nb \in nbs}

\* the evaluation of code with the given outcome
EvaluationOf(code, outcome) ==
    IF "Err" \in DOMAIN outcome
    THEN MkEvaluation(code, [Err |-> outcome.Err])
    ELSE MkEvaluation(code,
            [Ok |-> [b \in 1..Len(outcome.Ok) |->
                        MkBlock(code, b, outcome.Ok[b][1], outcome.Ok[b][2])]])

\* the student's test suite the wheats and chaffs are run against: two
\* blocks of one test each
SuiteBlocks == {2}

SuiteTests == {1}

-----------------------------------------------------------------------------
(* main, from the partitioned evaluations to the student reports *)

NoReports ==
    /\ functionality_reports = <<>>
    /\ wheat_reports = <<>>
    /\ all_invalid_tests = {}
    /\ all_invalid_blocks = {}
    /\ chaff_reports = <<>>
    /\ ta_reports = <<>>
    /\ gradescope_report = Null

\* a Map<string, number> with no entry
NoPoints == [name \in {} |-> 1]

\* the specifications that start from the partitioned evaluations read
\* neither the evaluations of the input file nor the point tables
NoInput ==
    /\ results = <<>>
    /\ point_values = [functionality |-> NoPoints, testing |-> NoPoints]

\* the chaff lists of a run: one chaff, run against the student's test suite
ChaffLists ==
    {<<EvaluationOf(ChaffCode, outcome)>> :
        outcome \in RunOutcomes(SuiteBlocks, SuiteTests)}

\* a run on the wheats and the chaff of a student's test suite. Nothing
\* reads the chaff evaluations before ChaffReports maps over them: they are
\* drawn there
InitTesting ==
    /\ pc = "functionality"
    /\ NoInput
    /\ test_results = <<>>
    /\ \E n \in 0..MaxWheats :
          \E outcomes \in [1..n -> RunOutcomes(SuiteBlocks, SuiteTests)] :
              wheat_results = [w \in 1..n |-> EvaluationOf(WheatCode(w), outcomes[w])]
    /\ chaff_results = <<>>
    /\ NoReports

\* a run on one functionality evaluation
InitFunctionality ==
    /\ pc = "functionality"
    /\ NoInput
    /\ \E outcome \in RunOutcomes(0..MaxBlocks, 0..MaxTests) :
          test_results = <<EvaluationOf(ImplCode, outcome)>>
    /\ wheat_results = <<>>
    /\ chaff_results = <<>>
    /\ NoReports

Init == InitTesting

\* test_results.map(generate_functionality_report)
FunctionalityReports ==
    /\ pc = "functionality"
    /\ functionality_reports' =
          [i \in 1..Len(test_results) |-> generate_functionality_report(test_results[i])]
    /\ pc' = "wheats"
    /\ UNCHANGED <<results, point_values, test_results, wheat_results,
                   chaff_results, wheat_reports, all_invalid_tests,
                   all_invalid_blocks, chaff_reports, ta_reports, gradescope_report>>

\* wheat_results.map(generate_wheat_report)
WheatReports ==
    /\ pc = "wheats"
    /\ wheat_reports' =
          [i \in 1..Len(wheat_results) |-> generate_wheat_report(wheat_results[i])]
    /\ pc' = "registry"
    /\ UNCHANGED <<results, point_values, test_results, wheat_results,
                   chaff_results, functionality_reports, all_invalid_tests,
                   all_invalid_blocks, chaff_reports, ta_reports, gradescope_report>>

\* generate_chaff_report(wheat_results): the two sets of the closure
ChaffReportClosure ==
    /\ pc = "registry"
    /\ LET sets == all_invalid(wheat_results)
       IN  /\ all_invalid_tests' = sets[1]
           /\ all_invalid_blocks' = sets[2]
    /\ pc' = "chaffs"
    /\ UNCHANGED <<results, point_values, test_results, wheat_results,
                   chaff_results, functionality_reports, wheat_reports,
                   chaff_reports, ta_reports, gradescope_report>>

\* chaff_results.map of the function generate_chaff_report returned
ChaffReports ==
    /\ pc = "chaffs"
    /\ \E chaffs \in ChaffLists :
          /\ chaff_results' = chaffs
          /\ chaff_reports' =
                [i \in 1..Len(chaffs) |->
                    chaff_report(chaffs[i], all_invalid_tests, all_invalid_blocks)]
    /\ pc' = "done"
    /\ UNCHANGED <<results, point_values, test_results, wheat_results,
                   functionality_reports, wheat_reports, all_invalid_tests,
                   all_invalid_blocks, ta_reports, gradescope_report>>

Next ==
    \/ FunctionalityReports
    \/ WheatReports
    \/ ChaffReportClosure
    \/ ChaffReports

\* the runs of main on a student's test suite
Spec == Init /\ [][Next]_vars

NextFunctionality == FunctionalityReports

\* the functionality grader on one evaluation
SpecFunctionality == InitFunctionality /\ [][NextFunctionality]_vars

-----------------------------------------------------------------------------
(* main, the score summaries *)

\* the functionality summaries, the wheat summary and the chaff summary
ScoreReports ==
    /\ pc = "chaffs"
    /\ Len(chaff_reports) = Len(chaff_results)
    /\ LET functionality_scores ==
               [i \in 1..Len(functionality_reports) |->
                   generate_score_report(functionality_reports[i],
                                         point_values.functionality,
                                         "Functionality score")]
           wheat_score ==
               generate_score_report(wheat_reports, point_values.testing, "Wheats score")
           chaff_score ==
               generate_score_report(chaff_reports, point_values.testing, "Chaffs score")
       IN  ta_reports' = functionality_scores \o <<wheat_score, chaff_score>>
    /\ pc' = "overall"
    /\ UNCHANGED <<results, point_values, test_results, wheat_results,
                   chaff_results, functionality_reports, wheat_reports,
                   all_invalid_tests, all_invalid_blocks, chaff_reports,
                   gradescope_report>>

\* the names of the reports given to generate_score_report
ItemNames == {"wheat1", "wheat2"}

\* their <<score, max_score>>
ItemScores == {<<0, 0>>, <<0, 1>>, <<1, 1>>, <<1, 2>>, <<2, 2>>}

Items ==
    {[name |-> name, score |-> scores[1], max_score |-> scores[2],
      output |-> <<"">>, visibility |-> "after_published"] :
        name \in ItemNames, scores \in ItemScores}

\* the point tables: a positive point value for some of the names
PointTables ==
    UNION {[names -> 1..MaxPoints] : names \in SUBSET ItemNames}

\* generate_score_report on a list of reports and a point table: the reports
\* are those of the wheats, and no chaff is left to grade
InitScore ==
    /\ pc = "chaffs"
    /\ results = <<>>
    /\ \E table \in PointTables :
          point_values = [functionality |-> NoPoints, testing |-> table]
    /\ test_results = <<>>
    /\ wheat_results = <<>>
    /\ chaff_results = <<>>
    /\ functionality_reports = <<>>
    /\ \E n \in 0..MaxItems : wheat_reports \in [1..n -> Items]
    /\ all_invalid_tests = {}
    /\ all_invalid_blocks = {}
    /\ chaff_reports = <<>>
    /\ ta_reports = <<>>
    /\ gradescope_report = Null

NextScore == ScoreReports

SpecScore == InitScore /\ [][NextScore]_vars

-----------------------------------------------------------------------------
(* main, from the input file to the overall report *)

\* partition_results(results)
PartitionResults ==
    /\ pc = "partition"
    /\ LET lists == partition_results(results)
       IN  /\ test_results' = lists[1]
           /\ wheat_results' = lists[2]
           /\ chaff_results' = lists[3]
    /\ pc' = "functionality"
    /\ UNCHANGED <<results, point_values, functionality_reports, wheat_reports,
                   all_invalid_tests, all_invalid_blocks, chaff_reports,
                   ta_reports, gradescope_report>>

\* ChaffReport with sets the grading adds to: the failed tests of the graded
\* chaff become invalid tests
ChaffReport_GrowsRegistry ==
    /\ pc = "chaffs"
    /\ Len(chaff_reports) < Len(chaff_results)
    /\ LET chaff_result == chaff_results[Len(chaff_reports) + 1]
       IN  /\ chaff_reports' =
                 Append(chaff_reports,
                        chaff_report(chaff_result, all_invalid_tests, all_invalid_blocks))
           /\ all_invalid_tests' =
                 all_invalid_tests \cup
                     (IF HasErr(chaff_result.result)
                      THEN {}
                      ELSE UNION {{get_loc_name(block.tests[t].loc) :
                                      t \in {t \in 1..Len(block.tests) :
                                                ~block.tests[t].passed}} :
                                  block \in {chaff_result.result.Ok[b] :
                                                b \in 1..Len(chaff_result.result.Ok)}})
    /\ UNCHANGED <<pc, results, point_values, test_results, wheat_results,
                   chaff_results, functionality_reports, wheat_reports,
                   all_invalid_blocks, ta_reports, gradescope_report>>

\* one call of the function generate_chaff_report returned, on the next
\* chaff of chaff_results.map
ChaffReport ==
    /\ pc = "chaffs"
    /\ Len(chaff_reports) < Len(chaff_results)
    /\ chaff_reports' =
          Append(chaff_reports,
                 chaff_report(chaff_results[Len(chaff_reports) + 1],
                              all_invalid_tests, all_invalid_blocks))
    /\ UNCHANGED <<pc, results, point_values, test_results, wheat_results,
                   chaff_results, functionality_reports, wheat_reports,
                   all_invalid_tests, all_invalid_blocks, ta_reports,
                   gradescope_report>>

\* OverallReport with the reports of the wheats and of the chaffs before
\* those of the functionality evaluations
OverallReport_WheatsFirst ==
    /\ pc = "overall"
    /\ LET student_reports ==
               wheat_reports \o chaff_reports \o Flatten(functionality_reports)
           all_reports == student_reports \o ta_reports
       IN  gradescope_report' = generate_overall_report(all_reports)
    /\ pc' = "written"
    /\ UNCHANGED <<results, point_values, test_results, wheat_results,
                   chaff_results, functionality_reports, wheat_reports,
                   all_invalid_tests, all_invalid_blocks, chaff_reports, ta_reports>>

\* student_reports, all_reports and generate_overall_report(all_reports)
OverallReport ==
    /\ pc = "overall"
    /\ LET student_reports ==
               Flatten(functionality_reports) \o wheat_reports \o chaff_reports
           all_reports == student_reports \o ta_reports
       IN  gradescope_report' = generate_overall_report(all_reports)
    /\ pc' = "written"
    /\ UNCHANGED <<results, point_values, test_results, wheat_results,
                   chaff_results, functionality_reports, wheat_reports,
                   all_invalid_tests, all_invalid_blocks, chaff_reports, ta_reports>>

\* a path name with both "chaff" and "wheat" in it, and one with neither
BothCode == <<"c", "h", "a", "f", "f", "-", "w", "h", "e", "a", "t">>

NeitherCode == <<"w", "h", "e", "a", "c", "h", "a", "f">>

\* the evaluations of the input file of a run of partition_results
PartitionEvaluations ==
    {EvaluationOf(code, [Err |-> "Timeout"]) :
        code \in {ImplCode, WheatCode(1), ChaffCode, BothCode, NeitherCode}}

NothingPartitioned ==
    /\ test_results = <<>>
    /\ wheat_results = <<>>
    /\ chaff_results = <<>>

\* partition_results on the evaluations of an input file
InitPartition ==
    /\ pc = "partition"
    /\ \E n \in 0..MaxResults : results \in [1..n -> PartitionEvaluations]
    /\ point_values = [functionality |-> NoPoints, testing |-> NoPoints]
    /\ NothingPartitioned
    /\ NoReports

NextPartition == PartitionResults

SpecPartition == InitPartition /\ [][NextPartition]_vars

\* outcomes of a run against a suite of two blocks of one test each: every
\* test passed; the test of the first block failed; the second block errored
AllPassed == [Ok |-> << <<FALSE, <<TRUE>>>>, <<FALSE, <<TRUE>>>> >>]

TestFailed == [Ok |-> << <<FALSE, <<FALSE>>>>, <<FALSE, <<TRUE>>>> >>]

BlockErrored == [Ok |-> << <<FALSE, <<TRUE>>>>, <<TRUE, <<TRUE>>>> >>]

\* the evaluations of the input file of a whole run
MainEvaluations ==
    {EvaluationOf(ImplCode, outcome) :
        outcome \in {[Err |-> "Timeout"], AllPassed, TestFailed}}
    \cup {EvaluationOf(code, outcome) :
             code \in {WheatCode(1), ChaffCode},
             outcome \in {AllPassed, TestFailed, BlockErrored}}

\* the point tables of a whole run: none, or MaxPoints for the first block
\* and for the wheat
MainPoints ==
    {[functionality |-> NoPoints, testing |-> NoPoints],
     [functionality |-> [name \in {BlockName(1)} |-> MaxPoints],
      testing |-> [name \in {get_file_name(WheatCode(1))} |-> MaxPoints]]}

InitMain ==
    /\ pc = "partition"
    /\ \E n \in 0..MaxResults : results \in [1..n -> MainEvaluations]
    /\ point_values \in MainPoints
    /\ NothingPartitioned
    /\ NoReports

NextMain ==
    \/ PartitionResults
    \/ FunctionalityReports
    \/ WheatReports
    \/ ChaffReportClosure
    \/ ChaffReport
    \/ ScoreReports
    \/ OverallReport

\* the whole runs of main
SpecMain == InitMain /\ [][NextMain]_vars

\* the runs the summaries are made in: the whole runs of main, and the
\* summaries of any list of reports with any point table
InitSummaries == InitMain \/ InitScore

SpecSummaries == InitSummaries /\ [][NextMain]_vars

-----------------------------------------------------------------------------
(* The notions the properties are stated in, read off the evaluations *)

\* the part of a location after its last "/"
PureLoc(loc) == LET parts == JsSplit(loc, "/") IN parts[Len(parts)]

Success(evaluation) == "Ok" \in DOMAIN evaluation.result

Failure(evaluation) == "Err" \in DOMAIN evaluation.result

BlocksIn(evaluation) ==
    {evaluation.result.Ok[i] : i \in 1..Len(evaluation.result.Ok)}

TestsIn(block) == {block.tests[j] : j \in 1..Len(block.tests)}

FailedTestsIn(block) == {test \in TestsIn(block) : ~test.passed}

SuccessWheats(W) == {W[n] : n \in {m \in 1..Len(W) : Success(W[m])}}

\* locations of the errored blocks of the Success wheats of W
invalidBlockLocations(W) ==
    {PureLoc(block.loc) :
        block \in {b \in UNION {BlocksIn(w) : w \in SuccessWheats(W)} : b.error}}

\* locations of the failed tests in the non-errored blocks of the Success
\* wheats of W
invalidTestLocations(W) ==
    {PureLoc(test.loc) :
        test \in UNION {FailedTestsIn(block) :
            block \in {b \in UNION {BlocksIn(w) : w \in SuccessWheats(W)} : ~b.error}}}

\* the piece is one of the pieces of the message
Contains(output, piece) == \E k \in 1..Len(output) : output[k] = piece

\* the lists that are W in another order
Reorderings(W) == {[n \in 1..Len(W) |-> W[p[n]]] : p \in Permutations(1..Len(W))}

Chaffs == 1..Len(chaff_results)

Wheats == 1..Len(wheat_results)

-----------------------------------------------------------------------------
(* Mutant-Catch Detector *)

\* the chaff did not fail as a whole, none of its blocks errored, and every
\* test it failed is at a location in the invalid test locations: the ones
\* read off the wheats, or the ones the closure holds
OnlyMaskedFailures(c) ==
    /\ Success(chaff_results[c])
    /\ \A block \in BlocksIn(chaff_results[c]) :
          /\ ~block.error
          /\ \A test \in FailedTestsIn(block) :
                \/ PureLoc(test.loc) \in invalidTestLocations(wheat_results)
                \/ get_loc_name(test.loc) \in all_invalid_tests

\* C1: a Success chaff with no errored block, all of whose failed tests are
\* at locations in the invalid test locations built from the wheats, gets
\* score 0 and the message "Chaff not caught."
C1_MaskedFailuresDoNotCatch ==
    pc = "done" =>
        \A c \in Chaffs :
            OnlyMaskedFailures(c) =>
                /\ chaff_reports[c].score = 0
                /\ chaff_reports[c].output = <<"Chaff not caught.">>

\* C1, its case: a chaff that failed a test, and only masked ones, was graded
C1_Witness ==
    /\ pc = "done"
    /\ \E c \in Chaffs :
          /\ OnlyMaskedFailures(c)
          /\ \E block \in BlocksIn(chaff_results[c]) : FailedTestsIn(block) # {}
          /\ chaff_reports[c].score = 0

\* the chaff has an errored block whose location no wheat marked invalid, or
\* a non-errored block with a failed test whose location no wheat marked
\* invalid
HasValidFailure(c) ==
    \E block \in BlocksIn(chaff_results[c]) :
        \/ block.error /\ PureLoc(block.loc) \notin invalidBlockLocations(wheat_results)
        \/ /\ ~block.error
           /\ \E test \in FailedTestsIn(block) :
                 PureLoc(test.loc) \notin invalidTestLocations(wheat_results)

\* C2: a Success chaff gets score 1 if and only if one of its blocks errored
\* at a location that is not an invalid block location, or one of its
\* non-errored blocks has a failed test at a location that is not an invalid
\* test location
C2_CaughtIffValidFailure ==
    pc = "done" =>
        \A c \in Chaffs :
            Success(chaff_results[c]) =>
                (chaff_reports[c].score = 1 <=> HasValidFailure(c))

\* C3: a Failure chaff gets score 1 of 1 and a message that holds the reason,
\* whatever the wheats are
C3_FailureChaffCaught ==
    pc = "done" =>
        \A c \in Chaffs :
            Failure(chaff_results[c]) =>
                /\ chaff_reports[c].score = 1
                /\ chaff_reports[c].max_score = 1
                /\ Contains(chaff_reports[c].output, chaff_results[c].result.Err)

\* C3, its case: a Failure chaff was graded against a registry that is not
\* empty
C3_Witness ==
    /\ pc = "done"
    /\ all_invalid_tests # {}
    /\ all_invalid_blocks # {}
    /\ \E c \in Chaffs : Failure(chaff_results[c]) /\ chaff_reports[c].score = 1

-----------------------------------------------------------------------------
(* Validity Oracle *)

RegistryBuilt == pc \in {"chaffs", "done"}

\* C4: the registry is exactly the locations of the errored blocks of the
\* Success wheats and the locations of the failed tests of their non-errored
\* blocks, distinct locations being distinct entries
C4_RegistryExact ==
    RegistryBuilt =>
        /\ all_invalid_blocks = invalidBlockLocations(wheat_results)
        /\ all_invalid_tests = invalidTestLocations(wheat_results)

\* the list W from its last element to its first
Reversed(W) == [n \in 1..Len(W) |-> W[Len(W) + 1 - n]]

\* C5: the registry built from the wheats in any other order is the same
\* pair of sets, and every chaff gets the same report under the registry of
\* the wheats in another order (the reverse order)
C5_RegistryOrderInvariant ==
    /\ pc = "chaffs" =>
          \A W \in Reorderings(wheat_results) :
              all_invalid(W) = <<all_invalid_tests, all_invalid_blocks>>
    /\ pc = "done" =>
          LET sets == all_invalid(Reversed(wheat_results))
          IN  \A c \in Chaffs :
                  chaff_report(chaff_results[c], sets[1], sets[2]) = chaff_reports[c]

\* C5, its case: two wheats that contribute differently to the registry, in
\* a run that graded a chaff
C5_Witness ==
    /\ pc = "done"
    /\ Len(wheat_results) = 2
    /\ all_invalid_tests_of(<<wheat_results[1]>>) # all_invalid_tests_of(<<wheat_results[2]>>)
    /\ all_invalid_blocks_of(<<wheat_results[1]>>) # all_invalid_blocks_of(<<wheat_results[2]>>)
    /\ Chaffs # {}

-----------------------------------------------------------------------------
(* Wheat Grader *)

WheatsGraded == pc \in {"registry", "chaffs", "done"}

Violates(block) == block.error \/ FailedTestsIn(block) # {}

\* the wheat ran and has a block that errored or holds a failed test
InvalidWheat(w) ==
    /\ Success(wheat_results[w])
    /\ \E block \in BlocksIn(wheat_results[w]) : Violates(block)

\* the earliest block of the wheat that errored or holds a failed test
FirstViolation(w) ==
    LET blocks == wheat_results[w].result.Ok
        first == CHOOSE i \in 1..Len(blocks) :
                    /\ Violates(blocks[i])
                    /\ \A k \in 1..(i - 1) : ~Violates(blocks[k])
    IN  blocks[first]

\* C6: the message of a Success wheat that is not valid names the earliest
\* block that errored or holds a failed test, as a block error when that
\* block errored and as a failed test otherwise
C6_WheatFirstViolation ==
    WheatsGraded =>
        \A w \in Wheats :
            InvalidWheat(w) =>
                wheat_reports[w].output =
                    IF FirstViolation(w).error
                    THEN <<"Wheat caused error in block ", FirstViolation(w).name>>
                    ELSE <<"Wheat failed test in block ", FirstViolation(w).name>>

\* C7: a wheat gets score 1 (of 1, "Passed wheat!") exactly when it ran, no
\* block errored and no test failed; a Failure wheat gets score 0 and a
\* message that holds the reason; wheats with the same result get the same
\* score and message whatever else is in the list
C7_WheatScore ==
    WheatsGraded =>
        /\ Len(wheat_reports) = Len(wheat_results)
        /\ \A w \in Wheats :
              /\ wheat_reports[w].score = 1 <=>
                    Success(wheat_results[w]) /\ ~InvalidWheat(w)
              /\ wheat_reports[w].score \in {0, 1}
              /\ wheat_reports[w].max_score = 1
              /\ wheat_reports[w].score = 1 =>
                    wheat_reports[w].output = <<"Passed wheat!">>
              /\ Failure(wheat_results[w]) =>
                    /\ wheat_reports[w].score = 0
                    /\ Contains(wheat_reports[w].output, wheat_results[w].result.Err)
        /\ \A w, v \in Wheats :
              (\/ Failure(wheat_results[w]) /\ Failure(wheat_results[v])
                    /\ wheat_results[w].result.Err = wheat_results[v].result.Err
               \/ Success(wheat_results[w]) /\ Success(wheat_results[v])
                    /\ Len(wheat_results[w].result.Ok) = Len(wheat_results[v].result.Ok)
                    /\ \A i \in 1..Len(wheat_results[w].result.Ok) :
                          LET a == wheat_results[w].result.Ok[i]
                              b == wheat_results[v].result.Ok[i]
                          IN  /\ a.name = b.name
                              /\ a.error = b.error
                              /\ Len(a.tests) = Len(b.tests)
                              /\ \A j \in 1..Len(a.tests) :
                                    a.tests[j].passed = b.tests[j].passed)
              => /\ wheat_reports[w].score = wheat_reports[v].score
                 /\ wheat_reports[w].output = wheat_reports[v].output

\* C7, its case: a valid wheat was graded in a list with a wheat that is a
\* Failure or has a violation
C7_Witness ==
    /\ WheatsGraded
    /\ Len(wheat_results) = 2
    /\ \E w, v \in Wheats :
          /\ wheat_reports[w].score = 1
          /\ \/ Failure(wheat_results[v])
             \/ InvalidWheat(v)
          /\ wheat_reports[v].score = 0

-----------------------------------------------------------------------------
(* Mutant-Catch Detector, tie-break *)

ValidBlockError(block) ==
    block.error /\ PureLoc(block.loc) \notin invalidBlockLocations(wheat_results)

ValidTestFailure(block) ==
    \E test \in FailedTestsIn(block) :
        PureLoc(test.loc) \notin invalidTestLocations(wheat_results)

HasValidViolation(c) ==
    \E block \in BlocksIn(chaff_results[c]) :
        ValidBlockError(block) \/ ValidTestFailure(block)

\* the earliest block of the chaff with a valid violation; its block error
\* comes before its tests
FirstValidViolation(c) ==
    LET blocks == chaff_results[c].result.Ok
        first == CHOOSE i \in 1..Len(blocks) :
                    /\ ValidBlockError(blocks[i]) \/ ValidTestFailure(blocks[i])
                    /\ \A k \in 1..(i - 1) :
                          ~(ValidBlockError(blocks[k]) \/ ValidTestFailure(blocks[k]))
    IN  blocks[first]

\* C8: a Success chaff with a valid violation is caught, and its message
\* names the block of the first valid violation in block-then-test order, as
\* a block error when that violation is one and as a failed test otherwise
C8_ChaffFirstValidViolation ==
    pc = "done" =>
        \A c \in Chaffs :
            Success(chaff_results[c]) /\ HasValidViolation(c) =>
                /\ chaff_reports[c].score = 1
                /\ chaff_reports[c].output =
                      IF ValidBlockError(FirstValidViolation(c))
                      THEN <<"Chaff caught; error in block ",
                             FirstValidViolation(c).name, "!">>
                      ELSE <<"Chaff caught; test failed in block ",
                             FirstValidViolation(c).name, "!">>

-----------------------------------------------------------------------------
(* Functionality Grader *)

FunctionalityGraded == pc # "functionality"

Submissions == 1..Len(test_results)

\* C9: a Success evaluation gets one item per block, in block order, named
\* after the block, of max_score 1 and visibility after_published; the score
\* is 1 exactly when the block did not error and all its tests passed; an
\* errored block gets "Block errored."; a non-errored block with k >= 1
\* failed tests gets score 0 and a message that reports k missing tests
C9_FunctionalityPerBlock ==
    FunctionalityGraded =>
        \A s \in Submissions :
            Success(test_results[s]) =>
                LET blocks == test_results[s].result.Ok
                    reports == functionality_reports[s]
                IN  /\ Len(reports) = Len(blocks)
                    /\ \A i \in 1..Len(blocks) :
                          LET k == Cardinality({j \in 1..Len(blocks[i].tests) :
                                                   ~blocks[i].tests[j].passed})
                          IN  /\ reports[i].name = blocks[i].name
                              /\ reports[i].max_score = 1
                              /\ reports[i].visibility = "after_published"
                              /\ reports[i].score \in {0, 1}
                              /\ reports[i].score = 1 <=>
                                    ~blocks[i].error /\ k = 0
                              /\ blocks[i].error =>
                                    reports[i].output = <<"Block errored.">>
                              /\ ~blocks[i].error /\ k >= 1 =>
                                    reports[i].output =
                                        <<"Missing ", ToString(k), " tests in this block">>

\* C9, its case: an evaluation was graded whose first block errored with a
\* passed test and whose second block did not error and failed its two tests
C9_Witness ==
    /\ FunctionalityGraded
    /\ \E s \in Submissions :
          /\ Success(test_results[s])
          /\ Len(test_results[s].result.Ok) = 2
          /\ LET blocks == test_results[s].result.Ok IN
                /\ blocks[1].error
                /\ \E test \in TestsIn(blocks[1]) : test.passed
                /\ ~blocks[2].error
                /\ Len(blocks[2].tests) = 2
                /\ \A j \in 1..2 : ~blocks[2].tests[j].passed
          /\ functionality_reports[s][1].score = 0
          /\ functionality_reports[s][2].output =
                <<"Missing ", "2", " tests in this block">>

\* C10: a Failure evaluation gets exactly one item: score 0 of 1, message
\* "Error: " and the reason, visibility visible; and main goes on
C10_FunctionalityFailure ==
    FunctionalityGraded =>
        \A s \in Submissions :
            Failure(test_results[s]) =>
                /\ Len(functionality_reports[s]) = 1
                /\ functionality_reports[s][1].score = 0
                /\ functionality_reports[s][1].max_score = 1
                /\ functionality_reports[s][1].output =
                      <<"Error: ", test_results[s].result.Err>>
                /\ functionality_reports[s][1].visibility = "visible"

\* C10, its case: an evaluation that failed by timeout was graded, and main
\* is at its next statement
C10_Witness ==
    /\ pc = "wheats"
    /\ \E s \in Submissions :
          /\ Failure(test_results[s])
          /\ test_results[s].result.Err = "Timeout"
          /\ functionality_reports[s][1].output = <<"Error: ", "Timeout">>

-----------------------------------------------------------------------------
(* Score Aggregator *)

\* the summaries are given
ScoresGiven == pc \in {"overall", "written"}

\* the lists of reports main summarises and the point table of each, in the
\* order of the summaries
Summarised ==
    [i \in 1..Len(functionality_reports) |->
        [reports |-> functionality_reports[i], table |-> point_values.functionality]]
    \o <<[reports |-> wheat_reports, table |-> point_values.testing],
          [reports |-> chaff_reports, table |-> point_values.testing]>>

\* the weight of a name: its entry in the table, 1 when it has none
Weight(table, name) == IF name \in DOMAIN table THEN table[name] ELSE 1

\* the sum of the weights of the items at the positions idx
RECURSIVE WeightSum(_, _, _)
WeightSum(items, table, idx) ==
    IF idx = {}
    THEN 0
    ELSE LET i == CHOOSE i \in idx : TRUE
         IN  Weight(table, items[i].name) + WeightSum(items, table, idx \ {i})

\* the positions of the items with full marks
Full(items) == {i \in DOMAIN items : items[i].score = items[i].max_score}

\* C11: the summary of a list of items has as score the sum of the weights of
\* the items with score = max_score and as max_score the sum of the weights of
\* all items, the weight of an item being the entry of its name in the table
\* and 1 when there is none; its message is empty and its visibility hidden;
\* the empty list gives 0 out of 0, and the items 1/1 and 0/1 with an empty
\* table give 1 out of 2.
C11_ScoreSummary ==
    ScoresGiven =>
        /\ Len(ta_reports) = Len(Summarised)
        /\ \A i \in 1..Len(Summarised) :
              LET items == Summarised[i].reports
                  table == Summarised[i].table
                  summary == ta_reports[i]
              IN  /\ summary.score = WeightSum(items, table, Full(items))
                  /\ summary.max_score = WeightSum(items, table, DOMAIN items)
                  /\ summary.output = <<"">>
                  /\ summary.visibility = "hidden"
                  /\ items = <<>> => summary.score = 0 /\ summary.max_score = 0
                  /\ ( /\ Len(items) = 2
                       /\ DOMAIN table = {}
                       /\ items[1].score = 1 /\ items[1].max_score = 1
                       /\ items[2].score = 0 /\ items[2].max_score = 1 )
                     => summary.score = 1 /\ summary.max_score = 2

\* a list of two items is summarised: one with full marks and a weight in the
\* table, one without full marks and without a weight
C11_Witness ==
    /\ ScoresGiven
    /\ Len(wheat_reports) = 2
    /\ 1 \in Full(wheat_reports)
    /\ 2 \notin Full(wheat_reports)
    /\ wheat_reports[1].name \in DOMAIN point_values.testing
    /\ point_values.testing[wheat_reports[1].name] = MaxPoints
    /\ wheat_reports[2].name \notin DOMAIN point_values.testing
    /\ ta_reports[Len(ta_reports) - 1].score = MaxPoints
    /\ ta_reports[Len(ta_reports) - 1].max_score = MaxPoints + 1

-----------------------------------------------------------------------------
(* Partitioner *)

\* the group of an evaluation, by the characters of its implementation
GroupOf(evaluation) ==
    IF Includes(evaluation.code, <<"w", "h", "e", "a", "t">>) THEN "wheat"
    ELSE IF Includes(evaluation.code, <<"c", "h", "a", "f", "f">>) THEN "chaff"
    ELSE "functionality"

\* the evaluations of a group, in the order of the input
InputGroup(group) == SelectSeq(results, LAMBDA evaluation : GroupOf(evaluation) = group)

\* C12: every evaluation of the input lands in exactly one group: wheat iff
\* its implementation contains "wheat" (also when it contains "chaff" too),
\* chaff iff it contains "chaff" and not "wheat", functionality otherwise;
\* each group keeps the order of the input and the three groups together
\* hold exactly the evaluations of the input.
C12_Partition ==
    pc = "functionality" =>
        /\ wheat_results = InputGroup("wheat")
        /\ chaff_results = InputGroup("chaff")
        /\ test_results = InputGroup("functionality")
        /\ Len(test_results) + Len(wheat_results) + Len(chaff_results) = Len(results)

\* an input of three evaluations is partitioned: an implementation with both
\* words and a wheat, in this order, and an implementation with neither word
C12_Witness ==
    /\ pc = "functionality"
    /\ Len(wheat_results) = 2
    /\ wheat_results[1].code = BothCode
    /\ wheat_results[2].code = WheatCode(1)
    /\ \E i \in 1..Len(results) : results[i].code = NeitherCode
    /\ Len(test_results) = 1
    /\ Len(chaff_results) = 0

-----------------------------------------------------------------------------
(* Report Assembler *)

\* the overall report is made
Written == pc = "written"

\* the number of block items of the functionality submissions before the s-th
RECURSIVE ItemsBefore(_)
ItemsBefore(s) ==
    IF s = 1 THEN 0 ELSE ItemsBefore(s - 1) + Len(functionality_reports[s - 1])

\* the number of block items of all functionality submissions
FunctionalityItems == ItemsBefore(Len(functionality_reports) + 1)

\* the items from position first + 1 of the tests of the overall report are
\* the items of the list, in its order
ItemsAt(first, list) ==
    /\ first + Len(list) <= Len(gradescope_report.tests)
    /\ \A i \in 1..Len(list) : gradescope_report.tests[first + i] = list[i]

\* the block items of the functionality submissions, in submission order and
\* block order, from position first + 1
FunctionalityItemsAt(first) ==
    \A s \in 1..Len(functionality_reports) :
        ItemsAt(first + ItemsBefore(s), functionality_reports[s])

\* the TA summaries from position first + 1 to the end: one functionality
\* summary per functionality submission, the wheat summary, the chaff summary
SummariesAt(first) ==
    LET tests == gradescope_report.tests
        submissions == Len(test_results)
    IN  /\ Len(tests) = first + submissions + 2
        /\ ItemsAt(first, ta_reports)
        /\ \A s \in 1..submissions : tests[first + s].name = "Functionality score"
        /\ tests[first + submissions + 1].name = "Wheats score"
        /\ tests[first + submissions + 2].name = "Chaffs score"

\* C13, as the specification states it: the tests of the overall report are
\* the wheat items, the chaff items, the block items of each functionality
\* submission, then the TA summaries, and nothing else.
C13_WheatsChaffsFunctionality ==
    Written =>
        /\ ItemsAt(0, wheat_reports)
        /\ ItemsAt(Len(wheat_reports), chaff_reports)
        /\ FunctionalityItemsAt(Len(wheat_reports) + Len(chaff_reports))
        /\ SummariesAt(Len(wheat_reports) + Len(chaff_reports) + FunctionalityItems)

\* C13, amended: the tests of the overall report are the block items of each
\* functionality submission (submission order, block order), the wheat items
\* (wheat-list order), the chaff items (chaff-list order), then the TA
\* summaries: one functionality summary per functionality submission, the
\* wheat summary, the chaff summary; nothing else; and the report and its
\* output are visible after publication.
C13_FunctionalityWheatsChaffs ==
    Written =>
        /\ FunctionalityItemsAt(0)
        /\ ItemsAt(FunctionalityItems, wheat_reports)
        /\ ItemsAt(FunctionalityItems + Len(wheat_reports), chaff_reports)
        /\ SummariesAt(FunctionalityItems + Len(wheat_reports) + Len(chaff_reports))
        /\ Len(functionality_reports) = Len(test_results)
        /\ Len(wheat_reports) = Len(wheat_results)
        /\ Len(chaff_reports) = Len(chaff_results)
        /\ gradescope_report.visibility = "after_published"
        /\ gradescope_report.stdout_visibility = "after_published"

\* the report of a run on a functionality submission with two blocks, a wheat
\* and a chaff is made: seven items
C13_Witness ==
    /\ Written
    /\ Len(test_results) = 1
    /\ Len(functionality_reports[1]) = 2
    /\ Len(wheat_results) = 1
    /\ Len(chaff_results) = 1
    /\ Len(gradescope_report.tests) = 7
    /\ gradescope_report.tests[1].name = BlockName(1)
    /\ gradescope_report.tests[3] = wheat_reports[1]
    /\ gradescope_report.tests[4] = chaff_reports[1]

-----------------------------------------------------------------------------
(* Validity Oracle and Mutant-Catch Detector, sequencing *)

\* the sets of the closure are those of all the wheats of the run
RegistryComplete ==
    <<all_invalid_tests, all_invalid_blocks>> = all_invalid(wheat_results)

\* as long as a chaff is graded, the sets of the closure are complete; the
\* reports made so far are those of the first chaffs of the list, each the
\* report of its chaff against the sets as they are, and equal chaffs have
\* equal reports wherever they stand in the list
SameRegistryForAll ==
    chaff_reports # <<>> =>
        /\ RegistryComplete
        /\ Len(chaff_reports) <= Len(chaff_results)
        /\ \A i \in 1..Len(chaff_reports) :
              /\ chaff_reports[i].score = 1 <=>
                    \/ HasErr(chaff_results[i].result)
                    \/ \E b \in 1..Len(chaff_results[i].result.Ok) :
                          LET block == chaff_results[i].result.Ok[b]
                          IN  \/ block.error /\ get_loc_name(block.loc) \notin all_invalid_blocks
                              \/ \E t \in 1..Len(block.tests) :
                                    /\ ~block.tests[t].passed
                                    /\ get_loc_name(block.tests[t].loc) \notin all_invalid_tests
              /\ \A j \in 1..Len(chaff_reports) :
                    chaff_results[i] = chaff_results[j] => chaff_reports[i] = chaff_reports[j]

\* a step that grades a chaff
GradesChaff == Len(chaff_reports') = Len(chaff_reports) + 1

\* C14: the registry is completely built from all wheats before the first
\* chaff is graded, and grading a chaff changes neither the registry nor the
\* chaff evaluations nor the wheat evaluations nor the reports of the chaffs
\* graded before: every chaff of the run is graded against the same registry
\* and its report does not depend on the chaffs graded before it.
C14_RegistryFrame ==
    /\ [](SameRegistryForAll)
    /\ [][GradesChaff =>
             /\ RegistryComplete
             /\ UNCHANGED <<all_invalid_tests, all_invalid_blocks, chaff_results,
                            wheat_results>>
             /\ SubSeq(chaff_reports', 1, Len(chaff_reports)) = chaff_reports]_vars

\* two chaffs are graded against a registry with an invalid test: the first,
\* with an errored block, is caught; the second, with a failed test, is not
C14_Witness ==
    /\ pc = "chaffs"
    /\ all_invalid_tests # {}
    /\ Len(chaff_reports) = 2
    /\ chaff_reports[1].score = 1
    /\ chaff_reports[2].score = 0
    /\ ~chaff_results[2].result.Ok[1].tests[1].passed

-----------------------------------------------------------------------------
(* Tests of an errored block *)

\* the evaluation with the tests of its errored blocks taken out: what the
\* evaluations that differ only in the tests of errored blocks share
WithoutErroredTests(evaluation) ==
    IF Failure(evaluation)
    THEN evaluation
    ELSE [evaluation EXCEPT !.result.Ok =
             [b \in 1..Len(@) |->
                 IF @[b].error THEN [@[b] EXCEPT !.tests = <<>>] ELSE @[b]]]

\* C15: the tests of an errored block are never trusted: a run and the run
\* on the same evaluations without the tests of their errored blocks have the
\* same registry, the same wheat reports, the same chaff reports and the same
\* functionality reports.
C15_ErroredBlockTestsNotRead ==
    pc = "done" =>
        LET wheats == [w \in Wheats |-> WithoutErroredTests(wheat_results[w])]
            sets == all_invalid(wheats)
        IN  /\ sets = <<all_invalid_tests, all_invalid_blocks>>
            /\ \A w \in Wheats : generate_wheat_report(wheats[w]) = wheat_reports[w]
            /\ \A c \in Chaffs :
                  chaff_report(WithoutErroredTests(chaff_results[c]), sets[1], sets[2])
                      = chaff_reports[c]
            /\ \A s \in 1..Len(test_results) :
                  generate_functionality_report(WithoutErroredTests(test_results[s]))
                      = functionality_reports[s]

-----------------------------------------------------------------------------
(* Location helper *)

\* the locations of the blocks and tests of the wheats and chaffs of the run
RunLocations ==
    UNION {{block.loc} \cup {test.loc : test \in TestsIn(block)} :
              block \in UNION {BlocksIn(evaluation) :
                                  evaluation \in {e \in {wheat_results[w] : w \in Wheats}
                                                        \cup {chaff_results[c] : c \in Chaffs} :
                                                     Success(e)}}}

\* C16: get_loc_name returns the part of a location after its last "/": two
\* locations with different last segments get different identifiers, and the
\* location of the same test in two evaluations gets the same identifier.
C16_LocNameIsLastSegment ==
    \A loc \in RunLocations :
        /\ get_loc_name(loc) = PureLoc(loc)
        /\ \A other \in RunLocations :
              /\ PureLoc(loc) # PureLoc(other) => get_loc_name(loc) # get_loc_name(other)
              /\ PureLoc(loc) = PureLoc(other) => get_loc_name(loc) = get_loc_name(other)

-----------------------------------------------------------------------------
(* Monotone masking *)

\* the wheats of the run at the positions kept, in their order
SubList(kept) ==
    LET RECURSIVE From(_)
        From(w) ==
            IF w > Len(wheat_results) THEN <<>>
            ELSE (IF w \in kept THEN <<wheat_results[w]>> ELSE <<>>) \o From(w + 1)
    IN  From(1)

\* C17: masking is monotone in the wheat list: for every list W the wheat
\* list of the run is W with more wheats added to, the registry of the run
\* contains the registry of W, and a chaff that is not caught under W is not
\* caught in the run. The registry of every such W is compared with the sets
\* of the closure when they are built; at the end of the run every chaff it
\* caught is caught under every pair of sets contained in those of the
\* closure, the registry of W among them.
C17_MonotoneMasking ==
    /\ pc = "chaffs" =>
          \A kept \in SUBSET Wheats :
              LET sets == all_invalid(SubList(kept))
              IN  /\ sets[1] \subseteq all_invalid_tests
                  /\ sets[2] \subseteq all_invalid_blocks
    /\ pc = "done" =>
          \A invalid_tests \in SUBSET all_invalid_tests,
             invalid_blocks \in SUBSET all_invalid_blocks :
              \A c \in Chaffs :
                  chaff_reports[c].score = 1
                      => chaff_report(chaff_results[c], invalid_tests, invalid_blocks).score = 1

\* a chaff with a failed test is caught under the first wheat alone, which
\* failed nothing, and not caught in the run, whose second wheat failed a test
C17_Witness ==
    /\ pc = "done"
    /\ Len(wheat_results) = 2
    /\ all_invalid(SubList({1})) = <<{}, {}>>
    /\ all_invalid_tests # {}
    /\ \E c \in Chaffs :
          /\ chaff_report(chaff_results[c], {}, {}).score = 1
          /\ chaff_reports[c].score = 0

-----------------------------------------------------------------------------
(* Wheat Grader, the fatal assertion *)

\* the report stands for the throw statement of generate_wheat_report
Thrown(report) == report.output[1] = "throw"

\* C18: the throw of generate_wheat_report is unreachable: every wheat with
\* exactly one of Ok and Err, Err a non-empty reason, gets a report; whenever
\* get_invalid_tests_and_blocks returns a pair for a Success wheat, one of
\* its two lists is not empty.
C18_NoThrow ==
    WheatsGraded =>
        \A w \in Wheats :
            /\ ~Thrown(wheat_reports[w])
            /\ wheat_reports[w].score \in {0, 1}
            /\ Success(wheat_results[w]) =>
                  LET invalid == get_invalid_tests_and_blocks(wheat_results[w])
                  IN  invalid # Null => Len(invalid[1]) > 0 \/ Len(invalid[2]) > 0

\* a Success wheat with no failed test and an errored block is graded, next
\* to a wheat that errored: the last test before the throw decides the first,
\* the test of Err the second
C18_Witness ==
    /\ WheatsGraded
    /\ \E w \in Wheats :
          /\ Success(wheat_results[w])
          /\ get_invalid_tests_and_blocks(wheat_results[w]) # Null
          /\ get_invalid_tests_and_blocks(wheat_results[w])[1] = <<>>
          /\ get_invalid_tests_and_blocks(wheat_results[w])[2] # <<>>
          /\ wheat_reports[w].output[1] = "Wheat caused error in block "
    /\ \E w \in Wheats :
          /\ Failure(wheat_results[w])
          /\ wheat_reports[w].output[1] = "Wheat errored; "

-----------------------------------------------------------------------------
(* Score Aggregator, bounds *)

\* every item has no point or full marks
AllOrNothing(items) ==
    \A i \in DOMAIN items : items[i].score = 0 \/ items[i].score = items[i].max_score

\* the reports are those the graders made of the evaluations of the run
FromGraders ==
    /\ Len(functionality_reports) = Len(test_results)
    /\ Len(wheat_reports) = Len(wheat_results)
    /\ Len(chaff_reports) = Len(chaff_results)

\* C19: for a list of items that each have score 0 or score = max_score and
\* a table of positive weights, the summary has 0 <= score <= max_score,
\* max_score at least the number of items when every weight is at least 1,
\* and score = max_score exactly when every item has score = max_score; the
\* lists main summarises are such lists: their items, made by the graders,
\* have max_score 1 and score 0 or 1.
C19_SummaryBounds ==
    ScoresGiven =>
        \A i \in 1..Len(Summarised) :
            LET items == Summarised[i].reports
                table == Summarised[i].table
                summary == ta_reports[i]
            IN  /\ FromGraders =>
                      /\ AllOrNothing(items)
                      /\ \A k \in DOMAIN items :
                            items[k].max_score = 1 /\ items[k].score \in {0, 1}
                /\ (AllOrNothing(items) /\ \A name \in DOMAIN table : table[name] > 0) =>
                      /\ 0 <= summary.score
                      /\ summary.score <= summary.max_score
                      /\ (\A name \in DOMAIN table : table[name] >= 1)
                            => summary.max_score >= Len(items)
                      /\ summary.score = summary.max_score <=> Full(items) = DOMAIN items

\* the summaries of a run of main are made: the functionality submission
\* lost the block with the entry in the table, the wheat with an entry got
\* full marks, and no chaff was graded
C19_Witness ==
    /\ ScoresGiven
    /\ FromGraders
    /\ Len(test_results) = 1
    /\ Len(wheat_results) = 1
    /\ Len(ta_reports) = 3
    /\ ta_reports[1].score = 1
    /\ ta_reports[1].max_score = MaxPoints + 1
    /\ ta_reports[2].score = MaxPoints
    /\ ta_reports[2].max_score = MaxPoints
    /\ ta_reports[3].score = 0
    /\ ta_reports[3].max_score = 0

-----------------------------------------------------------------------------
(* The three revisions of the chaff detector *)

\* C20: the three revisions of the chaff detector agree: for the wheat list
\* and every chaff of the run, generate_chaff_report of gradescope_report.ts,
\* of gradescope_report2.ts and of src/unnamed/part_000 give the same score.
C20_RevisionsAgree ==
    pc = "done" =>
        LET arrays == get_invalid_tests_and_blocks_r1(wheat_results)
        IN  \A c \in Chaffs :
                /\ generate_chaff_report_r1(arrays[1], arrays[2], chaff_results[c]).score
                      = chaff_reports[c].score
                /\ generate_chaff_report_p0(wheat_results, chaff_results[c]).score
                      = chaff_reports[c].score

=============================================================================
